---- MODULE Spec2Model ----
(***************************************************************************)
(* State-machine model of the_snake.py: the Snake and Apple objects, the   *)
(* key handler and the main loop.  Cells are pixel pairs <<x, y>> as in    *)
(* the source; rendering (draw, screen.fill, display.update, clock.tick)   *)
(* changes no game state and appears only as the end-of-tick step.         *)
(***************************************************************************)
EXTENDS Integers, Sequences, FiniteSets, TLC

\* ------------------------------------------------------------ constants
SCREEN_WIDTH == 640
SCREEN_HEIGHT == 480
GRID_SIZE == 20
GRID_WIDTH == SCREEN_WIDTH \div GRID_SIZE
GRID_HEIGHT == SCREEN_HEIGHT \div GRID_SIZE
CENTER_POSITION == <<SCREEN_WIDTH \div 2, SCREEN_HEIGHT \div 2>>

UP == <<0, -1>>
DOWN == <<0, 1>>
LEFT == <<-1, 0>>
RIGHT == <<1, 0>>
Directions == {UP, DOWN, LEFT, RIGHT}

\* Python's None (falsy, like the empty tuple that stands for it here).
None == <<>>

max_iterations == 1000

\* ------------------------------------------------------------ bounds
\* Ticks of the main loop explored (the loop itself runs to max_iterations).
MaxTicks == 6
\* random.randint draws explored: grid columns/rows within this many cells
\* of the centre cell.
AppleReach == 1

\* ------------------------------------------------------------ events
K_UP == "K_UP"
K_DOWN == "K_DOWN"
K_LEFT == "K_LEFT"
K_RIGHT == "K_RIGHT"
K_ESCAPE == "K_ESCAPE"
K_SPACE == "K_SPACE"
Keys == {K_UP, K_DOWN, K_LEFT, K_RIGHT, K_ESCAPE, K_SPACE}

NoEvent == [type |-> "NONE", key |-> "NONE"]
\* The events one poll can return: window close, a key press, or an event
\* of another type (mouse motion, key release, ...).
Events ==
    {[type |-> "QUIT", key |-> "NONE"], [type |-> "MOUSEMOTION", key |-> "NONE"]}
    \cup {[type |-> "KEYDOWN", key |-> k] : k \in Keys}

VARIABLES
    pc,              \* position in main / in the method main is calling
    iteration,       \* main: iteration
    positions,       \* snake.positions, head first
    length,          \* snake.length
    direction,       \* snake.direction
    next_direction,  \* snake.next_direction
    last,            \* snake.last
    apple,           \* apple.position
    event,           \* handle_keys: the loop variable `event`
    eaten,           \* history: apples main saw eaten since the last collision
    last_move        \* history: direction used by the most recent move

vars == <<pc, iteration, positions, length, direction, next_direction, last,
          apple, event, eaten, last_move>>

snake == <<positions, length, direction, next_direction, last>>

\* ------------------------------------------------------------ helpers
Range(s) == {s[i] : i \in 1..Len(s)}
Front(s) == SubSeq(s, 1, Len(s) - 1)

\* Snake.get_head_position
get_head_position == positions[1]

\* Faulty variants of new_head: the wrap-around left out; the axes of the
\* direction swapped.
new_head_swapped(head, dir) ==
    <<(head[1] + dir[2] * GRID_SIZE) % SCREEN_WIDTH,
      (head[2] + dir[1] * GRID_SIZE) % SCREEN_HEIGHT>>
new_head_nowrap(head, dir) ==
    <<head[1] + dir[1] * GRID_SIZE, head[2] + dir[2] * GRID_SIZE>>
\* Snake.move, the new head cell
new_head(head, dir) ==
    <<(head[1] + dir[1] * GRID_SIZE) % SCREEN_WIDTH,
      (head[2] + dir[2] * GRID_SIZE) % SCREEN_HEIGHT>>

\* Faulty variants of must_pop: the tail is never dropped; the tail is
\* dropped one cell too early (`>=` for `>`).
must_pop_never(ps, len) == FALSE
must_pop_early(ps, len) == Len(ps) >= len
\* Snake.move, `if len(self.positions) > self.length`
must_pop(ps, len) == Len(ps) > len

\* Faulty variant of grow.
grow_twice(len) == len + 2
\* Snake.grow
grow(len) == len + 1

\* DIRECTION_MAP as a function on (direction, key) pairs
DIRECTION_MAP ==
    (<<LEFT, K_UP>> :> UP) @@ (<<RIGHT, K_UP>> :> UP) @@
    (<<UP, K_LEFT>> :> LEFT) @@ (<<DOWN, K_LEFT>> :> LEFT) @@
    (<<UP, K_RIGHT>> :> RIGHT) @@ (<<DOWN, K_RIGHT>> :> RIGHT) @@
    (<<LEFT, K_DOWN>> :> DOWN) @@ (<<RIGHT, K_DOWN>> :> DOWN)

\* The direction an arrow key names (used by a faulty variant only).
KeyDirection(key) ==
    CASE key = K_UP -> UP
      [] key = K_DOWN -> DOWN
      [] key = K_LEFT -> LEFT
      [] key = K_RIGHT -> RIGHT
      [] OTHER -> None

\* Faulty variants of staged: every arrow key accepted, reversals included;
\* the lookup keyed by the pending direction instead of the live one.
staged_any_arrow(dir, nd, key) ==
    IF KeyDirection(key) # None THEN KeyDirection(key) ELSE dir
staged_from_pending(dir, nd, key) ==
    LET base == IF nd # None THEN nd ELSE dir
    IN IF <<base, key>> \in DOMAIN DIRECTION_MAP
       THEN DIRECTION_MAP[<<base, key>>] ELSE base
\* handle_keys: DIRECTION_MAP.get((snake.direction, event.key), snake.direction)
staged(dir, nd, key) ==
    IF <<dir, key>> \in DOMAIN DIRECTION_MAP
    THEN DIRECTION_MAP[<<dir, key>>] ELSE dir

\* Faulty variant of is_exit: the ESCAPE branch left out.
is_exit_quit_only(e) == e.type = "QUIT"
\* handle_keys: the two branches that call sys.exit()
is_exit(e) == e.type = "QUIT" \/ (e.type = "KEYDOWN" /\ e.key = K_ESCAPE)

\* Faulty variant of committed: the staged direction is dropped.
committed_never(dir, nd) == dir
\* Snake.update_direction, the new live direction
committed(dir, nd) == IF nd # None THEN nd ELSE dir

\* Apple.randomize_position: the cells random.randint can draw (bounded to
\* the window of AppleReach cells around the centre cell)
DrawColumns == {x \in 0..(GRID_WIDTH - 1) :
                  x - GRID_WIDTH \div 2 \in (-AppleReach)..AppleReach}
DrawRows == {y \in 0..(GRID_HEIGHT - 1) :
               y - GRID_HEIGHT \div 2 \in (-AppleReach)..AppleReach}
AppleDraws == {<<x * GRID_SIZE, y * GRID_SIZE>> : x \in DrawColumns, y \in DrawRows}

\* Faulty variant of accepted: the first draw is kept.
accepted_always(p, occupied) == TRUE
\* Apple.randomize_position: `if self.position not in occupied_positions`
accepted(p, occupied) == p \notin Range(occupied)

\* Faulty variants of collided: leaving the screen over an edge counts as a
\* collision (wall death); no collision is ever seen.
collided_or_wrapped(ps) ==
    \/ ps[1] \in Range(Tail(ps))
    \/ /\ Len(ps) > 1
       /\ \/ ps[1][1] - ps[2][1] \notin {-GRID_SIZE, 0, GRID_SIZE}
          \/ ps[1][2] - ps[2][2] \notin {-GRID_SIZE, 0, GRID_SIZE}
collided_never(ps) == FALSE
\* main: `snake.get_head_position() in snake.positions[1:]`
collided(ps) == ps[1] \in Range(Tail(ps))

\* ------------------------------------------------------------ Init
\* Snake.__init__ has run GameObject.__init__ (position = CENTER_POSITION)
\* and is about to call self.reset(); main has not built the apple yet.
Init ==
    /\ pc = "init_reset"
    /\ iteration = 0
    /\ positions = <<>>
    /\ length = 0
    /\ direction = None
    /\ next_direction = None
    /\ last = None
    /\ apple = CENTER_POSITION
    /\ event = NoEvent
    /\ eaten = 0
    /\ last_move = None

\* ------------------------------------------------------------ actions
\* Faulty variants of reset: the apple is repositioned too; on a collision
\* the body and length are kept.
reset_moves_apple(at, ret, initial_direction) ==
    /\ pc = at
    /\ length' = 1
    /\ positions' = <<CENTER_POSITION>>
    /\ \E d \in (IF initial_direction # None THEN {initial_direction} ELSE Directions) :
          direction' = d
    /\ next_direction' = None
    /\ last' = None
    /\ pc' = ret
    /\ apple' \in {p \in AppleDraws : accepted(p, <<CENTER_POSITION>>)}
    /\ UNCHANGED <<iteration, event, eaten, last_move>>
reset_keeps_body(at, ret, initial_direction) ==
    /\ pc = at
    /\ length' = IF at = "reset" THEN length ELSE 1
    /\ positions' = IF at = "reset" THEN positions ELSE <<CENTER_POSITION>>
    /\ \E d \in (IF initial_direction # None THEN {initial_direction} ELSE Directions) :
          direction' = d
    /\ next_direction' = None
    /\ last' = None
    /\ pc' = ret
    /\ UNCHANGED <<iteration, apple, event, eaten, last_move>>
\* Snake.reset(initial_direction): called at `at`, returning to `ret`.
reset(at, ret, initial_direction) ==
    /\ pc = at
    /\ length' = 1
    /\ positions' = <<CENTER_POSITION>>
    /\ \E d \in (IF initial_direction # None THEN {initial_direction} ELSE Directions) :
          direction' = d
    /\ next_direction' = None
    /\ last' = None
    /\ pc' = ret
    /\ UNCHANGED <<iteration, apple, event, eaten, last_move>>

\* Apple.randomize_position(snake.positions): one pass of the `while True`
\* loop, called at `at`, returning to `ret` when the drawn cell is free.
randomize_position(at, ret) ==
    /\ pc = at
    /\ \E p \in AppleDraws :
          /\ apple' = p
          /\ pc' = IF accepted(p, positions) THEN ret ELSE at
    /\ UNCHANGED <<iteration, snake, event, eaten, last_move>>

\* main: `while iteration <= max_iterations`, entering the loop body.
LoopEnter ==
    /\ pc = "loop"
    /\ iteration <= max_iterations
    /\ iteration < MaxTicks
    /\ pc' = "keys"
    /\ UNCHANGED <<iteration, snake, apple, event, eaten, last_move>>

\* Faulty variant of HandleEvent: a key press turns the snake at once
\* instead of staging the turn.
HandleEvent_turns_now ==
    /\ pc = "keys"
    /\ \E e \in Events :
          /\ event' = e
          /\ IF is_exit(e)
             THEN pc' = "exited" /\ UNCHANGED direction
             ELSE /\ pc' = "keys"
                  /\ direction' =
                        IF e.type = "KEYDOWN"
                        THEN staged(direction, next_direction, e.key)
                        ELSE direction
    /\ UNCHANGED <<iteration, positions, length, next_direction, last, apple,
                   eaten, last_move>>
\* handle_keys: one iteration of `for event in pygame.event.get()`.  The
\* polled list may hold any number of events, so the step can repeat.
HandleEvent ==
    /\ pc = "keys"
    /\ \E e \in Events :
          /\ event' = e
          /\ IF is_exit(e)
             THEN pc' = "exited" /\ UNCHANGED next_direction
             ELSE /\ pc' = "keys"
                  /\ next_direction' =
                        IF e.type = "KEYDOWN"
                        THEN staged(direction, next_direction, e.key)
                        ELSE next_direction
    /\ UNCHANGED <<iteration, positions, length, direction, last, apple,
                   eaten, last_move>>

\* handle_keys: the event list is exhausted, the function returns.
HandleKeysReturn ==
    /\ pc = "keys"
    /\ event' = NoEvent
    /\ pc' = "update"
    /\ UNCHANGED <<iteration, snake, apple, eaten, last_move>>

\* Snake.update_direction
update_direction ==
    /\ pc = "update"
    /\ direction' = committed(direction, next_direction)
    /\ next_direction' = None
    /\ pc' = "move"
    /\ UNCHANGED <<iteration, positions, length, last, apple, event,
                   eaten, last_move>>

\* Snake.move, first half: compute new_head and insert it at index 0.
move_insert ==
    /\ pc = "move"
    /\ positions' = <<new_head(get_head_position, direction)>> \o positions
    /\ last_move' = direction
    /\ pc' = "trim"
    /\ UNCHANGED <<iteration, length, direction, next_direction, last, apple,
                   event, eaten>>

\* Snake.move, second half: pop the tail into `last`, or clear `last`.
move_trim ==
    /\ pc = "trim"
    /\ IF must_pop(positions, length)
       THEN /\ last' = positions[Len(positions)]
            /\ positions' = Front(positions)
       ELSE /\ last' = None
            /\ UNCHANGED positions
    /\ pc' = "check"
    /\ UNCHANGED <<iteration, length, direction, next_direction, apple, event,
                   eaten, last_move>>

\* main: the if / elif after snake.move().
Check ==
    /\ pc = "check"
    /\ IF collided(positions)
       THEN pc' = "reset" /\ eaten' = 0
       ELSE IF get_head_position = apple
            THEN pc' = "grow" /\ eaten' = eaten + 1
            ELSE pc' = "draw" /\ UNCHANGED eaten
    /\ UNCHANGED <<iteration, snake, apple, event, last_move>>

\* Snake.grow, then main goes on to apple.randomize_position.
Grow ==
    /\ pc = "grow"
    /\ length' = grow(length)
    /\ pc' = "randomize"
    /\ UNCHANGED <<iteration, positions, direction, next_direction, last, apple,
                   event, eaten, last_move>>

\* main: snake.draw(), apple.draw(), display update, clock tick, iteration += 1.
EndTick ==
    /\ pc = "draw"
    /\ iteration' = iteration + 1
    /\ pc' = "loop"
    /\ UNCHANGED <<snake, apple, event, eaten, last_move>>

Next ==
    \/ reset("init_reset", "init_apple", None)
    \/ randomize_position("init_apple", "loop")
    \/ LoopEnter
    \/ HandleEvent
    \/ HandleKeysReturn
    \/ update_direction
    \/ move_insert
    \/ move_trim
    \/ Check
    \/ reset("reset", "draw", RIGHT)
    \/ Grow
    \/ randomize_position("randomize", "draw")
    \/ EndTick

Spec == Init /\ [][Next]_vars

\* ------------------------------------------------- Snake.move on its own
\* Snake(position = p) built on any grid cell p (reset draws the direction),
\* then move() is called once.
GridCells ==
    {<<x * GRID_SIZE, y * GRID_SIZE>> : x \in 0..(GRID_WIDTH - 1), y \in 0..(GRID_HEIGHT - 1)}

InitMove ==
    /\ pc = "move"
    /\ iteration = 0
    /\ \E p \in GridCells : positions = <<p>>
    /\ length = 1
    /\ direction \in Directions
    /\ next_direction = None
    /\ last = None
    /\ apple = CENTER_POSITION
    /\ event = NoEvent
    /\ eaten = 0
    /\ last_move = None

NextMove == move_insert \/ move_trim

SpecMove == InitMove /\ [][NextMove]_vars

\* ------------------------------------------------- the no-input scenario
\* main after construction with reset having drawn RIGHT, the apple on any
\* free cell; every poll returns an empty event list.
InitIdle ==
    /\ pc = "loop"
    /\ iteration = 0
    /\ positions = <<CENTER_POSITION>>
    /\ length = 1
    /\ direction = RIGHT
    /\ next_direction = None
    /\ last = None
    /\ apple \in {p \in AppleDraws : accepted(p, <<CENTER_POSITION>>)}
    /\ event = NoEvent
    /\ eaten = 0
    /\ last_move = None

NextIdle ==
    \/ LoopEnter
    \/ HandleKeysReturn
    \/ update_direction
    \/ move_insert
    \/ move_trim
    \/ Check
    \/ Grow
    \/ randomize_position("randomize", "draw")
    \/ EndTick

SpecIdle == InitIdle /\ [][NextIdle]_vars

\* ------------------------------------------------------------ claims
Opposite(d) == <<-d[1], -d[2]>>

\* C1: after Snake.move inserts the new head, the head is the previous head
\* plus direction * GRID_SIZE reduced modulo the screen size on each axis
\* (the value in 0..size-1 that differs from the sum by a multiple of size),
\* for every direction and every cell, edge cells included.
C1_HeadWraps ==
    pc = "trim" =>
        /\ positions[1][1] \in 0..(SCREEN_WIDTH - 1)
        /\ positions[1][2] \in 0..(SCREEN_HEIGHT - 1)
        /\ \E k \in {-1, 0, 1} :
              positions[1][1] = positions[2][1] + last_move[1] * GRID_SIZE + k * SCREEN_WIDTH
        /\ \E k \in {-1, 0, 1} :
              positions[1][2] = positions[2][2] + last_move[2] * GRID_SIZE + k * SCREEN_HEIGHT

C1_Witness ==
    /\ pc = "trim"
    /\ last_move = LEFT
    /\ positions[2][1] = 0
    /\ positions[1] = <<SCREEN_WIDTH - GRID_SIZE, positions[2][2]>>

\* C2: whenever no grow or reset call is pending, the snake's length field
\* is one more than the number of apples eaten since the last reset.
C2_LengthIsEatenPlusOne ==
    pc \notin {"init_reset", "reset", "grow"} => length = eaten + 1

C2_Witness == pc = "draw" /\ eaten = 3 /\ length = 4

\* C3: the step on which Apple.randomize_position returns (from
\* Apple.__init__ or after an apple was eaten) leaves the apple on a cell
\* that is not in snake.positions.
C3_ApplePlacedOffSnake ==
    [][(pc \in {"init_apple", "randomize"} /\ pc' \notin {"init_apple", "randomize"})
         => apple' \notin Range(positions')]_vars

C3_Witness ==
    /\ pc = "draw"
    /\ length = Len(positions) + 1
    /\ Len(positions) >= 2
    /\ apple \notin Range(positions)

\* C4: every Snake.reset call (from Snake.__init__ and on self-collision)
\* leaves length 1, exactly one occupied cell and one of the four directions.
C4_ResetState ==
    [][(pc \in {"init_reset", "reset"})
         => length' = 1 /\ Len(positions') = 1 /\ direction' \in Directions]_vars

C4_Witness ==
    /\ pc = "draw"
    /\ last_move # None
    /\ last = None
    /\ length = 1
    /\ positions = <<CENTER_POSITION>>
    /\ direction = RIGHT

\* C5 as stated: the tick's update step never changes the live direction
\* when a change was staged in that tick, so the tick's move still uses the
\* previous direction.
C5_Original ==
    [][pc = "update" /\ next_direction # None => direction' = direction]_vars

\* C5 amended: handling keys never changes the live direction; the staged
\* direction is committed by update_direction in the same loop iteration,
\* right before that iteration's move.
C5_CommittedAtUpdate ==
    [][/\ pc = "keys" => direction' = direction
       /\ pc = "update" /\ next_direction # None
            => direction' = next_direction /\ pc' = "move"]_vars

C5_Witness ==
    /\ pc = "move"
    /\ last_move # None
    /\ last # None
    /\ direction # last_move

\* C6 as stated: after 3 ticks without input from the centre moving right,
\* the head is 3 cells to the right and the length is 1, wherever the apple
\* was placed.
C6_Original ==
    pc = "loop" /\ iteration = 3 =>
        /\ get_head_position = <<(CENTER_POSITION[1] + 3 * GRID_SIZE) % SCREEN_WIDTH,
                                 CENTER_POSITION[2]>>
        /\ length = 1
        /\ Len(positions) = 1

\* C6 amended: after those 3 ticks the head is 3 cells to the right for
\* every apple placement; the length is still 1 when no apple was eaten
\* on the way.
C6_ThreeTicksRight ==
    pc = "loop" /\ iteration = 3 =>
        /\ get_head_position = <<(CENTER_POSITION[1] + 3 * GRID_SIZE) % SCREEN_WIDTH,
                                 CENTER_POSITION[2]>>
        /\ eaten = 0 => length = 1 /\ Len(positions) = 1

C6_Witness ==
    /\ pc = "loop"
    /\ iteration = 3
    /\ eaten = 0
    /\ positions = <<<<CENTER_POSITION[1] + 3 * GRID_SIZE, CENTER_POSITION[2]>>>>

LeftKey == [type |-> "KEYDOWN", key |-> K_LEFT]

\* C7 as stated: a LEFT key press on a snake of length 3 moving right is
\* accepted (LEFT is staged).
C7_Original ==
    pc = "keys" /\ event = LeftKey /\ direction = RIGHT /\ length = 3
        => next_direction = LEFT

\* C7 amended: a LEFT key press on a snake of length 3 moving right is not
\* accepted (RIGHT stays staged) and a snake of length 3 does not collide
\* with its body; whenever the head does collide after a move, the snake
\* is reset to length 1 in that same tick.
C7_ReversalRejected ==
    /\ [](/\ pc = "keys" /\ event = LeftKey /\ direction = RIGHT /\ length = 3
               => next_direction = RIGHT
          /\ pc = "check" /\ length = 3 => ~(positions[1] \in Range(Tail(positions))))
    /\ [][/\ pc = "check" /\ positions[1] \in Range(Tail(positions)) => pc' = "reset"
          /\ pc = "reset" => length' = 1 /\ pc' = "draw" /\ iteration' = iteration]_vars

C7_Witness ==
    /\ pc = "keys"
    /\ event = LeftKey
    /\ direction = RIGHT
    /\ length = 3
    /\ Len(positions) = 3
    /\ next_direction = RIGHT

\* C8: snake.positions never holds more than length + 1 cells, and right
\* after every Snake.move it holds exactly length cells.
C8_TrimmedToLength ==
    /\ Len(positions) <= length + 1
    /\ pc = "check" => Len(positions) = length

C8_Witness ==
    /\ pc = "check"
    /\ last = None
    /\ length = 3
    /\ Len(positions) = 3

ExitEvents == {[type |-> "QUIT", key |-> "NONE"], [type |-> "KEYDOWN", key |-> K_ESCAPE]}

\* C9: reading a QUIT event or an ESCAPE key-down ends the process on the
\* spot with the snake, the apple and the tick counter untouched, and
\* nothing happens after the exit.
C9_ExitIsImmediate ==
    [][/\ pc = "keys" /\ event' \in ExitEvents
            => pc' = "exited" /\ UNCHANGED <<snake, apple, iteration>>
       /\ pc = "exited" => UNCHANGED vars]_vars

C9_Witness ==
    /\ pc = "exited"
    /\ event = [type |-> "KEYDOWN", key |-> K_ESCAPE]
    /\ next_direction \notin {None, direction}

\* C10 as stated: the direction a tick's move is about to use is never the
\* opposite of the direction of the previous move.
C10_Original ==
    pc = "move" /\ last_move # None => direction # Opposite(last_move)

\* C10 amended: the same, except in the tick that follows a self-collision
\* reset (length 1 and no remembered tail cell), where the move goes RIGHT
\* whatever the previous move was.
C10_NoReversal ==
    pc = "move" /\ last_move # None /\ ~(last = None /\ length = 1)
        => direction # Opposite(last_move)

C10_Witness ==
    /\ pc = "move"
    /\ last_move = RIGHT
    /\ last # None
    /\ direction = UP

\* ------------------------------------------------- the end of the loop
\* main: `while iteration <= max_iterations`, entering the body on the last
\* iteration the loop allows.
LoopEnterLast ==
    /\ pc = "loop"
    /\ iteration <= max_iterations
    /\ iteration = max_iterations
    /\ pc' = "keys"
    /\ UNCHANGED <<iteration, snake, apple, event, eaten, last_move>>

\* main: the loop condition fails and main returns.
LoopExit ==
    /\ pc = "loop"
    /\ ~(iteration <= max_iterations)
    /\ pc' = "returned"
    /\ UNCHANGED <<iteration, snake, apple, event, eaten, last_move>>

\* ------------------------------------------------- snakes on the edge
EdgeCells ==
    {c \in GridCells : \/ c[1] \in {0, SCREEN_WIDTH - GRID_SIZE}
                       \/ c[2] \in {0, SCREEN_HEIGHT - GRID_SIZE}}

\* The cell n cells behind `head` for a snake that has been moving in `dir`.
Behind(head, dir, n) ==
    <<(head[1] - n * dir[1] * GRID_SIZE) % SCREEN_WIDTH,
      (head[2] - n * dir[2] * GRID_SIZE) % SCREEN_HEIGHT>>

\* main at the top of its last iteration, mid-game: a snake that has eaten
\* n - 1 apples (n <= 3) and has since run straight to an edge cell, the
\* apple on a free drawn cell.
InitLast ==
    /\ pc = "loop"
    /\ iteration = max_iterations
    /\ \E h \in EdgeCells, d \in Directions, n \in 1..3 :
          /\ positions = [i \in 1..n |-> Behind(h, d, i - 1)]
          /\ length = n
          /\ direction = d
          /\ last = Behind(h, d, n)
          /\ eaten = n - 1
          /\ last_move = d
    /\ next_direction = None
    /\ apple \in {p \in AppleDraws : accepted(p, positions)}
    /\ event = NoEvent

\* main from its start (the first MaxTicks ticks) or from the top of its
\* last iteration with a snake on the edge.
InitEdge == Init \/ InitLast

NextEdge ==
    \/ Next
    \/ LoopEnterLast
    \/ LoopExit

SpecEdge == InitEdge /\ [][NextEdge]_vars

\* C11: the main loop resets the snake exactly when, after the move, the
\* head is on another cell of the snake: the collision test goes to the
\* reset if and only if the head is in positions[1:], nothing else leads to
\* a reset, and the game ends only on a quit event or when the loop
\* condition fails; a move across a screen edge does neither.
C11_ResetIffSelfCollision ==
    [][/\ pc = "check" => (pc' = "reset" <=> positions[1] \in Range(Tail(positions)))
       /\ pc' = "reset" => pc = "check"
       /\ (pc' = "exited" /\ pc # "exited") => (pc = "keys" /\ event' \in ExitEvents)
       /\ (pc' = "returned" /\ pc # "returned") => iteration > max_iterations]_vars

C11_Witness ==
    /\ pc = "draw"
    /\ last_move = RIGHT
    /\ Len(positions) = 3
    /\ length = 3
    /\ positions[1][1] = 0
    /\ positions[2][1] = SCREEN_WIDTH - GRID_SIZE

\* C12: whenever main is about to reset the snake after a self-collision,
\* the reset can leave length 1 at the screen centre with each of the four
\* directions UP, DOWN, LEFT, RIGHT.
C12_ResetDirectionRandom ==
    pc = "reset" =>
        \A d \in Directions :
            ENABLED (/\ Next
                     /\ length' = 1
                     /\ positions' = <<CENTER_POSITION>>
                     /\ direction' = d)

\* C13: Snake.move prepends the new head to the old sequence; then, if the
\* old sequence had fewer cells than length, nothing is dropped and last is
\* None, otherwise exactly the old final cell is dropped and stored in last.
C13_PrependAndShift ==
    [][/\ pc = "move" =>
            /\ Len(positions') = Len(positions) + 1
            /\ Tail(positions') = positions
       /\ pc = "trim" =>
            LET old == Tail(positions)
            IN IF Len(old) < length
               THEN positions' = positions /\ last' = None
               ELSE /\ positions' = <<positions[1]>> \o SubSeq(old, 1, Len(old) - 1)
                    /\ last' = old[Len(old)]]_vars

C13_Witness ==
    /\ pc = "check"
    /\ Len(positions) = 3
    /\ last # None
    /\ last \notin Range(positions)

\* C14: the apple moves only inside Apple.randomize_position and the length
\* grows only in Snake.grow (and is set by reset); main calls them only in
\* a tick whose move put the head on the apple without a collision, and a
\* self-collision reset leaves the apple where it is.
C14_OnlyEatingMovesApple ==
    [][/\ apple' # apple => pc \in {"init_apple", "randomize"}
       /\ length' > length => pc \in {"init_reset", "grow"}
       /\ (pc' = "grow" /\ pc # "grow")
            => /\ pc = "check"
               /\ positions[1] = apple
               /\ positions[1] \notin Range(Tail(positions))
       /\ (pc' = "randomize" /\ pc # "randomize") => pc = "grow"
       /\ pc = "reset" => apple' = apple]_vars

C14_Witness ==
    /\ pc = "draw"
    /\ eaten = 0
    /\ last_move # None
    /\ last = None
    /\ Len(positions) = 1
    /\ apple # CENTER_POSITION

\* C15: while handle_keys runs, only next_direction (and the loop's event)
\* change; the live direction changes only in Snake.update_direction or
\* Snake.reset; update_direction runs right before the move and leaves
\* next_direction cleared.
C15_KeysOnlyStage ==
    [][/\ pc = "keys" => UNCHANGED <<direction, positions, length, last, apple, iteration>>
       /\ direction' # direction => pc \in {"update", "init_reset", "reset"}
       /\ pc = "update" => next_direction' = None /\ pc' = "move"
       /\ next_direction' # next_direction => pc \in {"keys", "update", "init_reset", "reset"}]_vars

C15_Witness ==
    /\ pc = "keys"
    /\ length = 2
    /\ event = [type |-> "KEYDOWN", key |-> K_UP]
    /\ next_direction = UP
    /\ direction = RIGHT

\* C16: at the end of every tick (after the collision / eating step) the
\* apple is on no cell of the snake, ticks that reset the snake included.
C16_AppleOffSnakeAtEndOfTick ==
    pc = "draw" => apple \notin Range(positions)

\* C18: at the end of every tick the cells of snake.positions are pairwise
\* distinct.
C18_NoSelfOverlap ==
    pc = "draw" => Cardinality(Range(positions)) = Len(positions)

C18_Witness ==
    /\ pc = "draw"
    /\ Len(positions) = 5
    /\ Cardinality(Range(positions)) = 5

\* C20: right after Snake.move the remembered tail cell, when there is one,
\* is not a cell of the snake.
C20_LastOffSnake ==
    pc = "check" /\ last # None => last \notin Range(positions)

\* ------------------------------------------------- one tick further
\* main: entering the loop body once more after the first MaxTicks ticks.
LoopEnterOnceMore ==
    /\ pc = "loop"
    /\ iteration <= max_iterations
    /\ iteration = MaxTicks
    /\ pc' = "keys"
    /\ UNCHANGED <<iteration, snake, apple, event, eaten, last_move>>

NextLonger ==
    \/ Next
    \/ LoopEnterOnceMore

\* main from its start, the first MaxTicks + 1 ticks.
SpecLonger == Init /\ [][NextLonger]_vars

\* ------------------------------------------------- the whole loop, no input
\* Faulty variant of LoopEnterAny: the loop runs one iteration too many.
LoopEnterAny_one_more ==
    /\ pc = "loop"
    /\ iteration <= max_iterations + 1
    /\ pc' = "keys"
    /\ UNCHANGED <<iteration, snake, apple, event, eaten, last_move>>
\* main: `while iteration <= max_iterations`, entering the loop body (every
\* iteration the loop allows).
LoopEnterAny ==
    /\ pc = "loop"
    /\ iteration <= max_iterations
    /\ pc' = "keys"
    /\ UNCHANGED <<iteration, snake, apple, event, eaten, last_move>>

NextLoop ==
    \/ LoopEnterAny
    \/ LoopExit
    \/ HandleKeysReturn
    \/ update_direction
    \/ move_insert
    \/ move_trim
    \/ Check
    \/ Grow
    \/ randomize_position("randomize", "draw")
    \/ EndTick

\* main run to its end with every poll returning an empty event list.  The
\* loop is single-threaded, so a step that can be taken is taken, and fair
\* random draws eventually hit a free cell when there is one.
SpecLoop ==
    /\ InitIdle
    /\ [][NextLoop]_vars
    /\ WF_vars(NextLoop)
    /\ SF_vars(randomize_position("randomize", "draw") /\ pc' = "draw")

TourDirection(c) ==
    LET cx == c[1] \div GRID_SIZE
        cy == c[2] \div GRID_SIZE
    IN IF cy = 0 THEN (IF cx < GRID_WIDTH - 1 THEN RIGHT ELSE DOWN)
       ELSE IF cx = 0 THEN UP
       ELSE IF cy % 2 = 1
            THEN (IF cx > 1 \/ cy = GRID_HEIGHT - 1 THEN LEFT ELSE DOWN)
            ELSE (IF cx < GRID_WIDTH - 1 THEN RIGHT ELSE DOWN)

\* The arrow key that asks for direction d.
ArrowKey(d) ==
    CASE d = UP -> K_UP
      [] d = DOWN -> K_DOWN
      [] d = LEFT -> K_LEFT
      [] d = RIGHT -> K_RIGHT

\* main after construction: reset has drawn RIGHT and the apple was drawn
\* on the cell in front of the head.
InitTour ==
    /\ pc = "loop"
    /\ iteration = 0
    /\ positions = <<CENTER_POSITION>>
    /\ length = 1
    /\ direction = RIGHT
    /\ next_direction = None
    /\ last = None
    /\ apple = new_head(CENTER_POSITION, TourDirection(CENTER_POSITION))
    /\ event = NoEvent
    /\ eaten = 0
    /\ last_move = None

\* handle_keys: the poll holds one event, the arrow key of the tour.
TourKey ==
    /\ event = NoEvent
    /\ HandleEvent
    /\ event' = [type |-> "KEYDOWN", key |-> ArrowKey(TourDirection(get_head_position))]

TourKeysReturn ==
    /\ event # NoEvent
    /\ HandleKeysReturn

\* Apple.randomize_position(snake.positions): one pass of the `while True`
\* loop, the draw being the cell in front of the head.
TourRandomize ==
    /\ pc = "randomize"
    /\ \E p \in {new_head(get_head_position, TourDirection(get_head_position))} :
          /\ apple' = p
          /\ pc' = IF accepted(p, positions) THEN "draw" ELSE "randomize"
    /\ UNCHANGED <<iteration, snake, event, eaten, last_move>>

NextTour ==
    \/ LoopEnterAny
    \/ TourKey
    \/ TourKeysReturn
    \/ update_direction
    \/ move_insert
    \/ move_trim
    \/ Check
    \/ Grow
    \/ TourRandomize
    \/ EndTick

SpecTour == InitTour /\ [][NextTour]_vars

\* C17: whenever Apple.randomize_position is running, some grid cell is not
\* occupied by the snake (so fair draws end the rejection loop).
C17_FreeCellWhenRandomizing ==
    pc \in {"init_apple", "randomize"} =>
        \E c \in GridCells : c \notin Range(positions)
====
